---- MODULE Spec2Model ----
(***************************************************************************)
(* Model of src/utils/options.ts of version-bumper: the option merge       *)
(* (getBumperOptions), the scheme lookup (getSchemeDefinition), the file   *)
(* list normalisation (normalizeFiles), the trigger / branch resolution    *)
(* and the state assembly (getBumperState).                                *)
(*                                                                         *)
(* JavaScript values are tagged records; a string is a sequence of         *)
(* characters.  Three kinds of character are told apart: white space, a    *)
(* run of ordinary characters (a word), and the text of a JSON literal     *)
(* (which JSON.parse turns into the value it denotes).                     *)
(***************************************************************************)
EXTENDS Integers, Sequences, FiniteSets, TLC

VARIABLES
  pc,             \* position of the running function
  files,          \* normalizeFiles: its argument
  result,         \* normalizeFiles / getSchemeDefinition: what the call produced
  options,        \* getSchemeDefinition / normalizeOptions: the options object
  bumperOptions,  \* getBumperOptions: the object being merged
  error,          \* getBumperOptions: the accumulated messages
  input,          \* getBumperOptions: the inputs read by the last step
  outcome,        \* getBumperOptions / getBumperState: how the call ended
  env,            \* process.env and github.context
  state,          \* getBumperState: the constants computed so far
  steps           \* getBumperState: the calls made so far, in order

vars == <<pc, files, result, options, bumperOptions, error, input, outcome,
          env, state, steps>>

(***************************************************************************)
(* Bounds of the model.                                                    *)
(***************************************************************************)
MaxFiles == 3       \* longest list handed to normalizeFiles on its own
MaxOptFiles == 2    \* longest file list in the options file or the files input

(***************************************************************************)
(* JavaScript values.                                                      *)
(***************************************************************************)
WS == [k |-> "ws"]
W(a) == [k |-> "word", w |-> a]
J(v) == [k |-> "json", v |-> v]

Undefined == [t |-> "undefined"]
Null == [t |-> "null"]
Str(s) == [t |-> "string", s |-> s]
Num(n) == [t |-> "number", n |-> n]
Obj(p) == [t |-> "object", p |-> p]
Arr(items) == [t |-> "array", items |-> items]
Bool(b) == [t |-> "boolean", b |-> b]
TypeError == [t |-> "TypeError"]

Word(a) == Str(<<W(a)>>)

\* what a property an object does not own holds in the model
Absent == [t |-> "absent"]

\* o.hasOwnProperty(k)
HasOwn(o, k) == o[k] # Absent

\* o[k]: a missing property reads as undefined
Get(o, k) == IF o[k] = Absent THEN Undefined ELSE o[k]

\* o[k] = v
Put(o, k, v) == [o EXCEPT ![k] = v]

\* a VersionFile object literal
VF(path, line) == Obj([path |-> path, line |-> line])

\* v.k on a value: only objects of the model carry properties
Prop(v, k) == IF v.t = "object" THEN Get(v.p, k) ELSE Undefined

TypeOf(v) ==
  CASE v.t \in {"object", "array", "null"} -> "object"
    [] OTHER -> v.t

Truthy(v) ==
  CASE v.t \in {"undefined", "null"} -> FALSE
    [] v.t = "string" -> v.s # <<>>
    [] v.t = "number" -> v.n # 0
    [] v.t = "boolean" -> v.b
    [] OTHER -> TRUE

RECURSIVE TrimStart(_)
TrimStart(s) == IF s # <<>> /\ Head(s) = WS THEN TrimStart(Tail(s)) ELSE s

RECURSIVE TrimEnd(_)
TrimEnd(s) ==
  IF s # <<>> /\ s[Len(s)] = WS THEN TrimEnd(SubSeq(s, 1, Len(s) - 1)) ELSE s

\* String.prototype.trim
Trim(s) == TrimEnd(TrimStart(s))

\* the property key a value is converted to
ToKey(v) ==
  CASE v.t = "string" -> v.s
    [] v.t = "number" -> <<J(v)>>
    [] OTHER -> <<W(v.t)>>

(***************************************************************************)
(* normalizeFiles.  filez is the object keyed by path; Object.keys lists   *)
(* its keys in the order they were first assigned.                         *)
(***************************************************************************)
NoFiles == [t |-> "filez", map |-> <<>>]

HasKey(filez, key) == \E i \in 1..Len(filez.map) : filez.map[i].key = key

\* a variant that never looks for the key: every entry adds one
AssignNoDedup(filez, key, val) ==
  [filez EXCEPT !.map = Append(filez.map, [key |-> key, val |-> val])]

Assign(filez, key, val) ==
  IF HasKey(filez, key)
  THEN [filez EXCEPT !.map = [i \in 1..Len(filez.map) |->
          IF filez.map[i].key = key THEN [key |-> key, val |-> val]
          ELSE filez.map[i]]]
  ELSE [filez EXCEPT !.map = Append(filez.map, [key |-> key, val |-> val])]

\* a variant in which an entry without a line leaves an earlier line alone
AssignFileKeepLine(filez, file) ==
  IF filez = TypeError \/ file = Null THEN TypeError
  ELSE LET key == IF TypeOf(file) = "object" THEN ToKey(Prop(file, "path"))
                  ELSE ToKey(file)
           line == IF TypeOf(file) = "object" THEN Prop(file, "line")
                   ELSE Undefined
       IN IF line = Undefined /\ HasKey(filez, key) THEN filez
          ELSE Assign(filez, key, line)

\* one turn of the for loop; a null entry has no properties to read
AssignFile(filez, file) ==
  IF filez = TypeError \/ file = Null THEN TypeError
  ELSE IF TypeOf(file) = "object"
       THEN Assign(filez, ToKey(Prop(file, "path")), Prop(file, "line"))
       ELSE Assign(filez, ToKey(file), Undefined)

RECURSIVE Filez(_, _)
Filez(filez, list) ==
  IF list = <<>> THEN filez
  ELSE Filez(AssignFile(filez, Head(list)), Tail(list))

ReduceEntry(e) ==
  IF Truthy(e.val) THEN VF(Str(e.key), e.val) ELSE VF(Str(e.key), Absent)

\* the array returned, or the TypeError thrown
normalizeFiles(list) ==
  LET filez == Filez(NoFiles, list)
  IN IF filez = TypeError THEN TypeError
     ELSE Arr([i \in 1..Len(filez.map) |-> ReduceEntry(filez.map[i])])

(***************************************************************************)
(* getSchemeDefinition and normalizeOptions.  definedSchemes stands for    *)
(* the table imported from schemes.json: a fixed map from preset names to  *)
(* their definitions.                                                      *)
(***************************************************************************)
PresetNames == {<<W("semantic")>>, <<W("org_semantic")>>}

definedSchemes ==
  [name \in PresetNames |->
     IF name = <<W("semantic")>> THEN <<W("major.minor[.build]")>>
     ELSE <<W("major.minor.build")>>]

Custom == Word("custom")

Return(v) == [t |-> "return", value |-> v]
Throw(text, arg) == [t |-> "Error", text |-> text, arg |-> arg]

SchemeNotDefined(scheme) == Throw("Scheme ${options.scheme} is not defined.", scheme)
NoDefinition ==
  Throw("Custom scheme has no definition. Scheme Definition must be specified in options",
        Undefined)

\* definedSchemesNames.indexOf(scheme) !== -1
IsDefinedName(scheme) == scheme.t = "string" /\ scheme.s \in PresetNames

\* !options.schemeDefinition || options.schemeDefinition.trim() === ""
NoSchemeDefinition(def) == ~Truthy(def) \/ Trim(def.s) = <<>>

\* a variant that tests the definition for presence only, not for blanks
getSchemeDefinitionNoTrim(o) ==
  LET scheme == Get(o, "scheme")
      def == Get(o, "schemeDefinition")
  IN IF scheme # Custom /\ IsDefinedName(scheme)
       THEN Return(Str(definedSchemes[scheme.s]))
     ELSE IF scheme # Custom /\ ~IsDefinedName(scheme)
       THEN SchemeNotDefined(scheme)
     ELSE IF ~Truthy(def) THEN NoDefinition
     ELSE Return(def)

getSchemeDefinition(o) ==
  LET scheme == Get(o, "scheme")
      def == Get(o, "schemeDefinition")
  IN IF scheme # Custom /\ IsDefinedName(scheme)
       THEN Return(Str(definedSchemes[scheme.s]))
     ELSE IF scheme # Custom /\ ~IsDefinedName(scheme)
       THEN SchemeNotDefined(scheme)
     ELSE IF scheme = Custom /\ NoSchemeDefinition(def)
       THEN NoDefinition
     ELSE IF NoSchemeDefinition(def)
       THEN NoDefinition
     ELSE Return(def)

(***************************************************************************)
(* getBumperOptions.  The function is modelled one block at a time.  The   *)
(* inputs are read once at lines 91-99 and never change; core.getInput has *)
(* no effect on the run, so each block draws the inputs it uses when it    *)
(* runs.                                                                   *)
(***************************************************************************)
OptionNames ==
  {"scheme", "schemeDefinition", "versionFile", "files", "rules", "skip",
   "username", "email"}

\* let bumperOptions: any = {}
NoOptions == [k \in OptionNames |-> Absent]

\* what err(message) appends to error
Msg(text) == [t |-> "message", text |-> text, arg |-> Undefined]

\* JSON.parse: the text of one JSON literal, white space around it allowed
JSONParse(text) ==
  LET body == Trim(text)
  IN IF Len(body) = 1 /\ body[1].k = "json" THEN Return(body[1].v)
     ELSE Throw("SyntaxError", Undefined)

\* text && text.trim() !== ''
Given(text) == text # <<>> /\ Trim(text) # <<>>

\* !bumperOptions.hasOwnProperty(k) || !bumperOptions[k]
Missing(o, k) == ~HasOwn(o, k) \/ ~Truthy(Get(o, k))

\* lines 119-134: scheme and custom-scheme; the new options and messages
SchemeStep(o, err, scheme, customScheme) ==
  LET o1 == IF scheme # <<>> THEN Put(o, "scheme", Str(scheme)) ELSE o
      e1 == IF scheme = <<>>
               /\ (Missing(o, "scheme") \/ Trim(Get(o, "scheme").s) = <<>>)
            THEN Append(err, Msg("Scheme is not defined in option file or workflow input."))
            ELSE err
      o2 == IF Given(customScheme)
            THEN Put(Put(o1, "scheme", Custom), "schemeDefinition", Str(customScheme))
            ELSE o1
      r == getSchemeDefinition(o2)
  IN IF r.t = "return"
     THEN [options |-> Put(o2, "schemeDefinition", r.value), error |-> e1,
           thrown |-> FALSE]
     ELSE [options |-> o2, error |-> Append(e1, r), thrown |-> FALSE]

\* lines 136-149: the version file
VersionFileStep(o, err, versionFile) ==
  LET v == Get(o, "versionFile")
      parsed == JSONParse(versionFile)
  IN IF Given(versionFile)
     THEN [options |-> Put(o, "versionFile",
                           IF parsed.t = "return" THEN parsed.value
                           ELSE VF(Str(versionFile), Absent)),
           error |-> err, thrown |-> FALSE]
     ELSE IF Missing(o, "versionFile")
     THEN [options |-> o, thrown |-> FALSE,
           error |-> Append(err, Msg("Version file is not defined in option file or workflow input."))]
     ELSE IF v.t # "string"      \* .trim is not a function
     THEN [options |-> o, error |-> err, thrown |-> TRUE]
     ELSE IF Trim(v.s) = <<>>
     THEN [options |-> o, thrown |-> FALSE,
           error |-> Append(err, Msg("Version file is not defined in option file or workflow input."))]
     ELSE [options |-> Put(o, "versionFile", normalizeFiles(<<v>>).items[1]),
           error |-> err, thrown |-> FALSE]

\* lines 151-164: the file list
FilesStep(o, err, filesInput) ==
  LET parsed == JSONParse(filesInput)
      own == Get(o, "files")
      fromInput == normalizeFiles(<<Get(o, "versionFile")>> \o parsed.value.items)
      fromFile == normalizeFiles(<<Get(o, "versionFile")>> \o own.items)
  IN IF Given(filesInput)
     THEN IF parsed.t # "return"
          THEN [options |-> o, error |-> Append(err, Msg("Files not in JSON format")),
                thrown |-> FALSE]
          ELSE IF parsed.value.t # "array"
          THEN [options |-> o, thrown |-> FALSE,
                error |-> Append(err, Msg("Files should be in array stringified JSON format"))]
          ELSE IF fromInput = TypeError   \* thrown inside the try block
          THEN [options |-> o, error |-> Append(err, Msg("Files not in JSON format")),
                thrown |-> FALSE]
          ELSE [options |-> Put(o, "files", fromInput), error |-> err,
                thrown |-> FALSE]
     ELSE IF Missing(o, "files") \/ own.t # "array"
     THEN [options |-> o, thrown |-> FALSE,
           error |-> Append(err, Msg("Files are not defined in option file or workflow input."))]
     ELSE IF fromFile = TypeError
     THEN [options |-> o, error |-> err, thrown |-> TRUE]
     ELSE [options |-> Put(o, "files", fromFile), error |-> err, thrown |-> FALSE]

\* lines 166-179: the rule list
RulesStep(o, err, rules) ==
  LET parsed == JSONParse(rules)
  IN IF Given(rules)
     THEN IF parsed.t # "return"
          THEN [options |-> o, error |-> Append(err, Msg("Rules not in JSON format")),
                thrown |-> FALSE]
          ELSE IF parsed.value.t # "array"
          THEN [options |-> o, thrown |-> FALSE,
                error |-> Append(err, Msg("Rules should be in array stringified JSON format"))]
          ELSE [options |-> Put(o, "rules", parsed.value), error |-> err,
                thrown |-> FALSE]
     ELSE IF Missing(o, "rules") \/ Get(o, "rules").t # "array"
     THEN [options |-> o, thrown |-> FALSE,
           error |-> Append(err, Msg("Rules are not defined in option file or workflow input."))]
     ELSE [options |-> o, error |-> err, thrown |-> FALSE]

\* lines 181-183: if (x) bumperOptions.x = x
Override(o, k, text) == IF text # <<>> THEN Put(o, k, Str(text)) ELSE o

IdentityStep(o, skip, username, email) ==
  Override(Override(Override(o, "skip", skip), "username", username), "email", email)

(***************************************************************************)
(* getTrigger, getBranchFromTrigger, getDestBranchFromTrigger.  In a ref   *)
(* every character is an element of its own, so that lengths count.        *)
(***************************************************************************)
Text(chars) == [i \in 1..Len(chars) |-> W(chars[i])]

RefsHeads == Text(<<"r", "e", "f", "s", "/", "h", "e", "a", "d", "s", "/">>)

\* s.substring(n)
Substring(s, n) == SubSeq(s, n + 1, Len(s))

\* x || ''
OrEmpty(v) == IF Truthy(v) THEN v ELSE Str(<<>>)

\* process.env.GITHUB_REF?.substring('refs/heads/'.length)
RefBranch(ref) ==
  IF ref = Undefined THEN Undefined ELSE Str(Substring(ref.s, Len(RefsHeads)))

getTrigger(e) ==
  CASE e.eventName = Word("push") -> Return(Word("commit"))
    [] e.eventName = Word("pull_request") ->
         IF e.action = Word("opened") THEN Return(Word("pull-request"))
         ELSE IF e.action = Word("synchronize") THEN Return(Word("pull-request-sync"))
         ELSE Return(Word("pull-request-other"))
    [] e.eventName = Word("workflow_dispatch") -> Return(Word("manual"))
    [] OTHER -> Throw("Invalid trigger event", Undefined)

getBranchFromTrigger(e, trigger) ==
  IF trigger = Word("pull-request") THEN OrEmpty(e.GITHUB_HEAD_REF)
  ELSE OrEmpty(RefBranch(e.GITHUB_REF))

getDestBranchFromTrigger(e, trigger) ==
  IF trigger = Word("pull-request") THEN OrEmpty(e.GITHUB_BASE_REF)
  ELSE OrEmpty(RefBranch(e.GITHUB_REF))

\* options.skip || false
getSkipOption(o) == IF Truthy(Get(o, "skip")) THEN Get(o, "skip") ELSE Bool(FALSE)

\* getFiles: the list returned, or the TypeError normalizeFiles throws
getFiles(o) ==
  LET list == normalizeFiles(Get(o, "files").items)
  IN IF list = TypeError THEN TypeError ELSE Return(list)

(***************************************************************************)
(* Values the model draws from.                                            *)
(***************************************************************************)
Lists(S, n) == UNION {[1..k -> S] : k \in 0..n}

Idle == [t |-> "idle"]

Paths == {<<W("a")>>, <<W("b")>>}
Lines == {0, 5, 10}

\* a list entry: a path string, or an object {path} or {path, line}
FileEntries ==
  {Str(p) : p \in Paths}
  \cup {VF(Str(p), Absent) : p \in Paths}
  \cup {VF(Str(p), Num(n)) : p \in Paths, n \in Lines}

(***************************************************************************)
(* normalizeFiles called on its own.                                       *)
(***************************************************************************)
InitFiles ==
  /\ pc = "normalizeFiles"
  /\ files \in Lists(FileEntries, MaxFiles)
  /\ result = Idle
  /\ options = Idle /\ bumperOptions = Idle /\ error = Idle /\ input = Idle
  /\ outcome = Idle /\ env = Idle /\ state = Idle /\ steps = Idle

CallNormalizeFiles ==
  /\ pc = "normalizeFiles"
  /\ result' = normalizeFiles(files)
  /\ pc' = "done"
  /\ UNCHANGED <<files, options, bumperOptions, error, input, outcome, env,
                 state, steps>>

NextFiles == CallNormalizeFiles

SpecFiles == InitFiles /\ [][NextFiles]_vars

\* what the claims read off a list: the path an entry names, the line it carries
EntryPath(e) == IF e.t = "string" THEN e.s ELSE e.p.path.s
EntryLine(e) == IF e.t = "string" THEN Absent ELSE e.p.line
Occurrences(list, p) == {i \in 1..Len(list) : EntryPath(list[i]) = p}
Max(S) == CHOOSE x \in S : \A y \in S : y <= x
FilesDone == pc = "done" /\ result.t = "array"

\* C2: the output of normalizeFiles holds exactly one entry for every path of
\* the input and no entry for any other path.
C2_DedupByPath ==
  pc = "done" =>
    /\ result.t = "array"
    /\ \A p \in Paths :
         Cardinality(Occurrences(result.items, p))
           = (IF Occurrences(files, p) = {} THEN 0 ELSE 1)
    /\ \A i \in 1..Len(result.items) : EntryPath(result.items[i]) \in Paths

C2_Witness ==
  /\ FilesDone
  /\ files = <<VF(Str(<<W("a")>>), Num(5)), Str(<<W("a")>>),
               VF(Str(<<W("a")>>), Num(10))>>
  /\ Len(result.items) = 1

\* the line the output keeps for path p (Absent: none)
KeptLine(p) == EntryLine(result.items[CHOOSE i \in Occurrences(result.items, p) : TRUE])

\* the entries for p that carry a line (line 0 is read as no line number)
WithLine(list, p) ==
  {i \in Occurrences(list, p) :
     EntryLine(list[i]) # Absent /\ EntryLine(list[i]) # Num(0)}

\* C3 as stated: the line kept for a path is the line of the last entry that
\* carries an explicit line; an entry without a line never overwrites it.
C3_LastExplicitLineWins ==
  pc = "done" =>
    \A p \in Paths : Occurrences(files, p) # {} =>
      KeptLine(p) = (IF WithLine(files, p) = {} THEN Absent
                     ELSE EntryLine(files[Max(WithLine(files, p))]))

\* C3 amended: the line kept for a path is the line of the last entry for that
\* path, whatever the earlier entries carried: when that last entry has no line
\* (a bare path string, an object without line) or line 0, the path is kept
\* without a line.
C3_LastEntryWins ==
  pc = "done" =>
    \A p \in Paths : Occurrences(files, p) # {} =>
      LET last == EntryLine(files[Max(Occurrences(files, p))])
      IN KeptLine(p) = (IF last = Absent \/ last = Num(0) THEN Absent ELSE last)

C3_Witness ==
  /\ FilesDone
  /\ files = <<VF(Str(<<W("a")>>), Num(5)), Str(<<W("a")>>)>>
  /\ result.items = <<VF(Str(<<W("a")>>), Absent)>>

(***************************************************************************)
(* getSchemeDefinition and normalizeOptions called on an options object.   *)
(***************************************************************************)
SchemeValues ==
  {Absent, Str(<<>>), Str(<<WS>>), Word("semantic"), Word("org_semantic"),
   Custom, Word("unknown-preset"), Str(<<WS, W("custom")>>)}

DefinitionValues ==
  {Absent, Str(<<>>), Str(<<WS>>), Str(<<WS, WS>>), Word("v{major}"),
   Str(<<WS, W("v{major}"), WS>>), Str(<<W("{major}"), WS, W("{minor}")>>)}

InitScheme ==
  /\ pc = "ready"
  /\ options \in [scheme : SchemeValues, schemeDefinition : DefinitionValues]
  /\ result = Idle
  /\ files = Idle /\ bumperOptions = Idle /\ error = Idle /\ input = Idle
  /\ outcome = Idle /\ env = Idle /\ state = Idle /\ steps = Idle

\* normalizeOptions: stores the definition, or rethrows
CallNormalizeOptions ==
  /\ pc = "ready"
  /\ LET r == getSchemeDefinition(options)
     IN /\ result' = r
        /\ IF r.t = "return"
           THEN /\ options' = Put(options, "schemeDefinition", r.value)
                /\ pc' = "normalized"
           ELSE /\ options' = options
                /\ pc' = "done"
  /\ UNCHANGED <<files, bumperOptions, error, input, outcome, env, state, steps>>

CallGetSchemeDefinition ==
  /\ pc \in {"ready", "normalized"}
  /\ result' = getSchemeDefinition(options)
  /\ pc' = "done"
  /\ UNCHANGED <<files, options, bumperOptions, error, input, outcome, env,
                 state, steps>>

NextScheme == CallNormalizeOptions \/ CallGetSchemeDefinition

SpecScheme == InitScheme /\ [][NextScheme]_vars

IsBlank(text) == \A i \in 1..Len(text) : text[i] = WS

\* C4: a preset scheme returns the preset's definition whatever
\* schemeDefinition holds; any other scheme but "custom" fails with the
\* scheme-is-not-defined error; "custom" with a missing, empty or whitespace
\* definition fails with one and the same error; "custom" with any other
\* definition returns that definition unchanged.
C4_SchemeResolution ==
  pc = "done" =>
    LET scheme == options.scheme
        def == options.schemeDefinition
        preset == scheme \in {Word("semantic"), Word("org_semantic")}
        blank == def = Absent \/ IsBlank(def.s)
    IN /\ preset => result = Return(Str(definedSchemes[scheme.s]))
       /\ (~preset /\ scheme # Word("custom")) =>
            /\ result.t = "Error"
            /\ result.text = "Scheme ${options.scheme} is not defined."
       /\ (scheme = Word("custom") /\ blank) => result = NoDefinition
       /\ (scheme = Word("custom") /\ ~blank) => result = Return(def)

C4_Witness ==
  /\ pc = "done"
  /\ options.scheme = Word("custom")
  /\ options.schemeDefinition = Str(<<WS, WS>>)
  /\ result = NoDefinition

(***************************************************************************)
(* getBumperOptions: what the options file and the inputs may hold.        *)
(***************************************************************************)
PathA == <<W("a")>>
PathB == <<W("b")>>
Rule == Obj([trigger |-> Word("commit"), bump |-> Word("build")])

OptEntries == {Str(PathA), Str(PathB), VF(Str(PathA), Num(10))}
OptLists == Lists(OptEntries, MaxOptFiles)

\* the object JSON.parse makes of the options file
OptionsFiles ==
  [scheme : {Absent, Str(<<WS>>), Word("semantic"), Custom, Word("unknown-preset")},
   schemeDefinition : {Absent, Str(<<WS>>), Word("v{major}")},
   versionFile : {Absent, Str(<<WS>>), Str(PathA), VF(Str(PathA), Absent),
                  VF(Str(PathA), Num(5))},
   files : {Absent, Str(PathA)} \cup {Arr(l) : l \in OptLists},
   rules : {Absent, Str(PathA), Arr(<<Rule>>)},
   skip : {Absent},
   username : {Absent, Word("file-user")},
   email : {Absent}]

SchemeInputs == {<<>>, <<W("semantic")>>, <<W("custom")>>, <<W("unknown-preset")>>}
CustomSchemeInputs == {<<>>, <<WS>>, <<W("{major}-{minor}")>>}
VersionFileInputs ==
  {<<>>, <<WS>>, PathB, <<J(VF(Str(PathB), Num(5)))>>, <<J(VF(Absent, Num(5)))>>}
FilesInputs ==
  {<<>>, <<W("a,b")>>, <<J(VF(Str(PathA), Absent))>>}
  \cup {<<J(Arr(l))>> : l \in OptLists}
RulesInputs == {<<>>, <<W("commit:build")>>, <<J(Rule)>>, <<J(Arr(<<Rule, Rule>>))>>}
SkipInputs == {<<>>, <<W("true")>>}
UsernameInputs == {<<>>, <<W("input-user")>>}
EmailInputs == {<<>>, <<W("input@mail")>>}

NoInput == [name |-> "none"]

InitOptions ==
  /\ pc = "optionsFile"
  /\ bumperOptions = NoOptions
  /\ error = <<>>
  /\ input = NoInput
  /\ outcome = Idle
  /\ files = Idle /\ result = Idle /\ options = Idle
  /\ env = Idle /\ state = Idle /\ steps = Idle

OptionsUnchanged == UNCHANGED <<files, result, options, env, state, steps>>

\* lines 108-117: no options file, a path that does not exist, a file that does
\* not parse (bumperOptions stays {}), or the parsed object
ReadOptionsFile ==
  /\ pc = "optionsFile"
  /\ \E file \in {"none", "missing", "unparsable", "parsed"} :
       /\ input' = [name |-> "options-file", file |-> file]
       /\ IF file = "parsed"
          THEN bumperOptions' \in OptionsFiles
          ELSE bumperOptions' = NoOptions
  /\ pc' = "scheme"
  /\ UNCHANGED <<error, outcome>>
  /\ OptionsUnchanged

\* a block ends: the next block, or the exception that leaves the function
Continue(r, next) ==
  /\ bumperOptions' = r.options
  /\ error' = r.error
  /\ IF r.thrown
     THEN pc' = "done" /\ outcome' = TypeError
     ELSE pc' = next /\ outcome' = outcome

MergeScheme ==
  /\ pc = "scheme"
  /\ \E scheme \in SchemeInputs, customScheme \in CustomSchemeInputs :
       /\ input' = [name |-> "scheme", scheme |-> scheme,
                    customScheme |-> customScheme]
       /\ Continue(SchemeStep(bumperOptions, error, scheme, customScheme),
                   "versionFile")
  /\ OptionsUnchanged

MergeVersionFile ==
  /\ pc = "versionFile"
  /\ \E versionFile \in VersionFileInputs :
       /\ input' = [name |-> "version-file", versionFile |-> versionFile]
       /\ Continue(VersionFileStep(bumperOptions, error, versionFile), "files")
  /\ OptionsUnchanged

MergeFiles ==
  /\ pc = "files"
  /\ \E filesInput \in FilesInputs :
       /\ input' = [name |-> "files", files |-> filesInput]
       /\ Continue(FilesStep(bumperOptions, error, filesInput), "rules")
  /\ OptionsUnchanged

MergeRules ==
  /\ pc = "rules"
  /\ \E rules \in RulesInputs :
       /\ input' = [name |-> "rules", rules |-> rules]
       /\ Continue(RulesStep(bumperOptions, error, rules), "identity")
  /\ OptionsUnchanged

MergeIdentity ==
  /\ pc = "identity"
  /\ \E skip \in SkipInputs, username \in UsernameInputs, email \in EmailInputs :
       /\ input' = [name |-> "identity", skip |-> skip, username |-> username,
                    email |-> email]
       /\ bumperOptions' = IdentityStep(bumperOptions, skip, username, email)
  /\ pc' = "finish"
  /\ UNCHANGED <<error, outcome>>
  /\ OptionsUnchanged

\* lines 185-189
Finish ==
  /\ pc = "finish"
  /\ outcome' = IF error # <<>> THEN [t |-> "Error", message |-> error]
                ELSE Return(bumperOptions)
  /\ pc' = "done"
  /\ UNCHANGED <<bumperOptions, error, input>>
  /\ OptionsUnchanged

NextOptions ==
  \/ ReadOptionsFile
  \/ MergeScheme
  \/ MergeVersionFile
  \/ MergeFiles
  \/ MergeRules
  \/ MergeIdentity
  \/ Finish

SpecOptions == InitOptions /\ [][NextOptions]_vars

(***************************************************************************)
(* Claims about getBumperOptions.                                          *)
(***************************************************************************)
Blocks == {"scheme", "versionFile", "files", "rules"}

NextBlock(block) ==
  CASE block = "scheme" -> "versionFile"
    [] block = "versionFile" -> "files"
    [] block = "files" -> "rules"
    [] block = "rules" -> "identity"

IsPrefix(s, t) == Len(s) <= Len(t) /\ SubSeq(t, 1, Len(s)) = s

\* C1: every block of required-field validation records at most one message
\* for its field and goes on to the next block whatever it found; the function
\* then throws one Error carrying every recorded message, and returns the
\* options exactly when nothing was recorded.
C1_AggregatedValidation ==
  [][/\ pc \in Blocks =>
          /\ pc' = NextBlock(pc)
          /\ IsPrefix(error, error')
          /\ Len(error') <= Len(error) + 1
     /\ pc' = "done" =>
          /\ pc = "finish"
          /\ (outcome'.t = "return") <=> (error = <<>>)
          /\ outcome'.t = "return" => outcome'.value = bumperOptions
          /\ outcome'.t # "return" => outcome' = [t |-> "Error", message |-> error]
    ]_vars

\* C5: after the scheme block, a non-blank custom-scheme input has made the
\* scheme "custom" with the input as its definition, and no message has been
\* recorded, whatever the scheme input and the options file held.
C5_CustomSchemeImpliesCustom ==
  (pc = "versionFile" /\ ~IsBlank(input.customScheme)) =>
    /\ bumperOptions.scheme = Word("custom")
    /\ bumperOptions.schemeDefinition = Str(input.customScheme)
    /\ error = <<>>

\* a version file as the options file may give it: a non-blank path string, or
\* an object with a path
SuppliedVersionFile(v) ==
  \/ v.t = "string" /\ ~IsBlank(v.s)
  \/ v.t = "object" /\ v.p.path.t = "string"

\* the VersionFile a supplied value stands for
AsVersionFile(v) == IF v.t = "string" THEN VF(v, Absent) ELSE v

\* C6: with an empty version-file input, a versionFile the options file gives
\* as a path string or as an object {path, line?} is taken over: the block
\* records no message, throws nothing, and leaves the normalized value.
C6_VersionFileFromOptionsFile ==
  [][(/\ pc = "versionFile"
      /\ IsBlank(input'.versionFile)
      /\ SuppliedVersionFile(bumperOptions.versionFile)) =>
        /\ pc' = "files"
        /\ error' = error
        /\ bumperOptions'.versionFile = AsVersionFile(bumperOptions.versionFile)
    ]_vars

\* the path of the merged version file, as the file list names it
IsVersionFile(v) == v.t = "object" /\ v.p.path.t = "string"

\* C8: whenever getBumperOptions returns, versionFile is an object with a path
\* and the file list holds exactly one entry with that path.
C8_VersionFileInFiles ==
  (pc = "done" /\ outcome.t = "return") =>
    LET o == outcome.value
    IN /\ IsVersionFile(o.versionFile)
       /\ o.files.t = "array"
       /\ Cardinality({i \in 1..Len(o.files.items) :
             o.files.items[i].p.path = o.versionFile.p.path}) = 1

\* what a non-blank input denotes: the value of its JSON text, if it is one
IsJsonText(text) == \E i \in 1..Len(text) : text[i].k = "json"
JsonValue(text) == text[CHOOSE i \in 1..Len(text) : text[i].k = "json"].v
IsJsonArray(text) == IsJsonText(text) /\ JsonValue(text).t = "array"

\* the version file as the list's first entry (undefined when there is none)
FirstEntry(o) == IF o.versionFile = Absent THEN Undefined ELSE o.versionFile

\* C7: in every block a non-empty (and, for JSON, valid) input decides the
\* merged value whatever the options file held for that field, and an empty
\* input keeps what the options file held (a version file normalized to an
\* object, a file list normalized with the version file in front).  The scheme
\* is decided by the scheme and custom-scheme inputs together.
C7_InputsOverrideFile ==
  [][/\ pc = "scheme" =>
          /\ ~IsBlank(input'.customScheme) => bumperOptions'.scheme = Word("custom")
          /\ (IsBlank(input'.customScheme) /\ input'.scheme # <<>>) =>
               bumperOptions'.scheme = Str(input'.scheme)
          /\ (IsBlank(input'.customScheme) /\ input'.scheme = <<>>) =>
               bumperOptions'.scheme = bumperOptions.scheme
     /\ pc = "versionFile" =>
          /\ pc' = "files"
          /\ ~IsBlank(input'.versionFile) =>
               bumperOptions'.versionFile =
                 (IF IsJsonText(input'.versionFile) THEN JsonValue(input'.versionFile)
                  ELSE VF(Str(input'.versionFile), Absent))
          /\ IsBlank(input'.versionFile) =>
               bumperOptions'.versionFile =
                 (IF SuppliedVersionFile(bumperOptions.versionFile)
                  THEN AsVersionFile(bumperOptions.versionFile)
                  ELSE bumperOptions.versionFile)
     /\ pc = "files" =>
          /\ pc' = "rules"
          /\ IsJsonArray(input'.files) =>
               bumperOptions'.files =
                 normalizeFiles(<<FirstEntry(bumperOptions)>>
                                \o JsonValue(input'.files).items)
          /\ IsBlank(input'.files) =>
               bumperOptions'.files =
                 (IF bumperOptions.files.t = "array"
                  THEN normalizeFiles(<<FirstEntry(bumperOptions)>>
                                      \o bumperOptions.files.items)
                  ELSE bumperOptions.files)
     /\ pc = "rules" =>
          /\ IsJsonArray(input'.rules) =>
               bumperOptions'.rules = JsonValue(input'.rules)
          /\ IsBlank(input'.rules) => bumperOptions'.rules = bumperOptions.rules
     /\ pc = "identity" =>
          \A k \in {"skip", "username", "email"} :
            bumperOptions'[k] = (IF input'[k] # <<>> THEN Str(input'[k])
                                 ELSE bumperOptions[k])
    ]_vars

(***************************************************************************)
(* getBumperState: the constants of lines 258-268 are computed one call    *)
(* after the other; a call that throws leaves the function.  The calls     *)
(* into ./utils (getSchemeRegex, getCurVersion, getTag, bumpVersion) either *)
(* return a value or throw.                                                *)
(***************************************************************************)
StateNames ==
  {"trigger", "branch", "destBranch", "skip", "schemeRegExp", "schemeDefinition",
   "curVersion", "curAppVersion", "tag", "newVersion", "files"}

NoState == [k \in StateNames |-> Absent]

Main == Text(<<"m", "a", "i", "n">>)

Refs ==
  {Undefined,
   Str(RefsHeads \o Main),
   Str(RefsHeads),
   Str(Text(<<"r", "e", "f", "s", "/", "t", "a", "g", "s", "/", "v", "1">>)),
   Str(Text(<<"r", "e", "f", "s", "/", "p", "u", "l", "l", "/", "7", "/",
              "m", "e", "r", "g", "e">>))}

Environments ==
  [eventName : {Word("push"), Word("pull_request"), Word("workflow_dispatch"),
                Word("schedule")},
   action : {Undefined, Word("opened"), Word("synchronize"), Word("closed")},
   GITHUB_REF : Refs,
   GITHUB_HEAD_REF : {Undefined, Str(Text(<<"d", "e", "v">>))},
   GITHUB_BASE_REF : {Undefined, Str(Main)}]

StateOptions ==
  [scheme : {Word("semantic"), Custom, Word("unknown-preset")},
   schemeDefinition : {Absent, Word("v{major}")},
   versionFile : {VF(Str(PathA), Num(5))},
   files : {Arr(<<VF(Str(PathA), Num(5)), VF(Str(PathB), Absent)>>)},
   rules : {Arr(<<Rule>>)},
   skip : {Absent, Word("true")},
   username : {Absent},
   email : {Absent}]

InitState ==
  /\ pc = "getTrigger"
  /\ env \in Environments
  /\ options \in StateOptions
  /\ state = NoState
  /\ steps = <<>>
  /\ outcome = Idle
  /\ files = Idle /\ result = Idle /\ bumperOptions = Idle /\ error = Idle
  /\ input = Idle

StateUnchanged ==
  UNCHANGED <<files, result, options, bumperOptions, error, input, env>>

\* the call that follows in the declaration list of lines 258-268
AfterSwapped(call) ==
  CASE call = "getTrigger" -> "getBranchFromTrigger"
    [] call = "getBranchFromTrigger" -> "getDestBranchFromTrigger"
    [] call = "getDestBranchFromTrigger" -> "getSkipOption"
    [] call = "getSkipOption" -> "getSchemeRegex"
    [] call = "getSchemeRegex" -> "getSchemeDefinition"
    [] call = "getSchemeDefinition" -> "getCurVersion"
    [] call = "getCurVersion" -> "getCurAppVersion"
    [] call = "getCurAppVersion" -> "bumpVersion"
    [] call = "bumpVersion" -> "getTag"
    [] call = "getTag" -> "getFiles"
    [] call = "getFiles" -> "snapshot"

After(call) ==
  CASE call = "getTrigger" -> "getBranchFromTrigger"
    [] call = "getBranchFromTrigger" -> "getDestBranchFromTrigger"
    [] call = "getDestBranchFromTrigger" -> "getSkipOption"
    [] call = "getSkipOption" -> "getSchemeRegex"
    [] call = "getSchemeRegex" -> "getSchemeDefinition"
    [] call = "getSchemeDefinition" -> "getCurVersion"
    [] call = "getCurVersion" -> "getCurAppVersion"
    [] call = "getCurAppVersion" -> "getTag"
    [] call = "getTag" -> "bumpVersion"
    [] call = "bumpVersion" -> "getFiles"
    [] call = "getFiles" -> "snapshot"

\* call `call` is made and ends as r: its value is bound to constant k and the
\* next declaration is evaluated, or its exception rejects the promise
Evaluate(call, k, r) ==
  /\ pc = call
  /\ steps' = Append(steps, call)
  /\ IF r.t = "return"
     THEN /\ state' = Put(state, k, r.value)
          /\ pc' = After(call)
          /\ outcome' = outcome
     ELSE /\ state' = state
          /\ pc' = "done"
          /\ outcome' = r
  /\ StateUnchanged

\* what a call into ./utils may do
External(value, failure) == {Return(value), Throw(failure, Undefined)}

CallGetTrigger == Evaluate("getTrigger", "trigger", getTrigger(env))

CallGetBranchFromTrigger ==
  Evaluate("getBranchFromTrigger", "branch",
           Return(getBranchFromTrigger(env, state.trigger)))

CallGetDestBranchFromTrigger ==
  Evaluate("getDestBranchFromTrigger", "destBranch",
           Return(getDestBranchFromTrigger(env, state.trigger)))

CallGetSkipOption ==
  Evaluate("getSkipOption", "skip", Return(getSkipOption(options)))

CallGetSchemeRegex ==
  \E r \in External(Word("regexp"), "scheme cannot be compiled") :
    Evaluate("getSchemeRegex", "schemeRegExp", r)

CallGetSchemeDefinitionForState ==
  Evaluate("getSchemeDefinition", "schemeDefinition", getSchemeDefinition(options))

CallGetCurVersion ==
  \E r \in External(Word("2.3.9"), "version not found") :
    Evaluate("getCurVersion", "curVersion", r)

CallGetCurAppVersion ==
  \E r \in External(Word("2.3.9"), "version not found") :
    Evaluate("getCurAppVersion", "curAppVersion", r)

CallGetTag ==
  \E r \in External(Bool(TRUE), "tag cannot be decided") :
    Evaluate("getTag", "tag", r)

CallBumpVersion ==
  \E r \in External(Word("2.4.0"), "cannot bump") :
    Evaluate("bumpVersion", "newVersion", r)

CallGetFiles ==
  Evaluate("getFiles", "files", getFiles(options))

\* lines 269-283: the snapshot is built and returned
ReturnState ==
  /\ pc = "snapshot"
  /\ outcome' = Return(state)
  /\ pc' = "done"
  /\ UNCHANGED <<state, steps>>
  /\ StateUnchanged

NextState ==
  \/ CallGetTrigger
  \/ CallGetBranchFromTrigger
  \/ CallGetDestBranchFromTrigger
  \/ CallGetSkipOption
  \/ CallGetSchemeRegex
  \/ CallGetSchemeDefinitionForState
  \/ CallGetCurVersion
  \/ CallGetCurAppVersion
  \/ CallGetTag
  \/ CallBumpVersion
  \/ CallGetFiles
  \/ ReturnState

SpecState == InitState /\ [][NextState]_vars

\* the ref without the prefix refs/heads/
WithoutRefsHeads(ref) ==
  IF ref = Undefined THEN Str(<<>>)
  ELSE IF IsPrefix(RefsHeads, ref.s)
       THEN Str(SubSeq(ref.s, Len(RefsHeads) + 1, Len(ref.s)))
       ELSE ref

\* C9: for trigger pull-request the branch is the head ref and the destination
\* branch the base ref; for every other trigger both are the ref with its
\* prefix refs/heads/ removed, the empty string when the ref is unset.
C9_BranchResolution ==
  state.destBranch # Absent =>
    IF state.trigger = Word("pull-request")
    THEN /\ state.branch = (IF env.GITHUB_HEAD_REF = Undefined THEN Str(<<>>)
                            ELSE env.GITHUB_HEAD_REF)
         /\ state.destBranch = (IF env.GITHUB_BASE_REF = Undefined THEN Str(<<>>)
                                ELSE env.GITHUB_BASE_REF)
    ELSE /\ state.branch = state.destBranch
         /\ state.branch = WithoutRefsHeads(env.GITHUB_REF)

\* the order the claim gives: trigger, branch and destBranch, skip flag,
\* resolved scheme, curVersion, curAppVersion, tag decision, new version,
\* final file list
StateOrder ==
  <<"getTrigger", "getBranchFromTrigger", "getDestBranchFromTrigger",
    "getSkipOption", "getSchemeRegex", "getSchemeDefinition", "getCurVersion",
    "getCurAppVersion", "getTag", "bumpVersion", "getFiles">>

Recognized(e) ==
  e.eventName \in {Word("push"), Word("pull_request"), Word("workflow_dispatch")}

\* C10: the calls of getBumperState are made in the order of the claim, a
\* call that throws is the last one made and no snapshot is produced; an
\* unrecognized event fails with the invalid-trigger error before any version
\* file is read, and a snapshot is produced only after every call has returned.
C10_OrderedFailFast ==
  /\ IsPrefix(steps, StateOrder)
  /\ outcome.t \notin {"idle", "return"} => pc = "done"
  /\ outcome.t = "return" => steps = StateOrder
  /\ (pc = "done" /\ steps # StateOrder) => outcome.t = "Error"
  /\ (~Recognized(env) /\ steps # <<>>) =>
       /\ steps = <<"getTrigger">>
       /\ outcome = Throw("Invalid trigger event", Undefined)

\* a version read failed: neither the tag decision nor the bump was made
C10_Witness ==
  /\ pc = "done"
  /\ outcome = Throw("version not found", Undefined)
  /\ steps[Len(steps)] = "getCurAppVersion"
  /\ state.tag = Absent /\ state.newVersion = Absent

====
